---------------------------- MODULE Spec2Model ----------------------------
(***************************************************************************)
(* A model of the LiqPay payment request builder (class LiqPay).           *)
(*                                                                         *)
(* Text is modelled as it is on the wire: a sequence of byte values.  The  *)
(* table Utf8 gives the bytes of every string the model uses, JSON and     *)
(* base64 are computed byte by byte, and the claims read the request back  *)
(* by decoding the base64 text and parsing the JSON text.                  *)
(*                                                                         *)
(* A JavaScript object is a sequence of properties [k, v] in insertion     *)
(* order, with no key twice.  A value is a number or a string; reading a   *)
(* key an object does not have gives Undefined.                            *)
(***************************************************************************)
EXTENDS Integers, Sequences, FiniteSets, TLC

VARIABLES
    privateKey,     \* LiqPay.privateKey, set by the constructor
    publicKey,      \* LiqPay.publicKey, set by the constructor
    enableSandbox,  \* LiqPay.enableSandbox, set by the constructor
    apiVersion,     \* LiqPay.apiVersion
    out,            \* the outcome of the latest getObjData / getHtmlForm call
    setOut,         \* the outcome of the latest setApiVersion call
    requested       \* history: the latest non-empty setApiVersion argument

vars == <<privateKey, publicKey, enableSandbox, apiVersion, out, setOut, requested>>

-----------------------------------------------------------------------------
(* Bounds and input sets *)

\* Payload amounts range over 0..MaxAmount.
MaxAmount == 2

\* The arguments setApiVersion is called with.
VersionArgs == {"", "3", "4"}

PrivateKeys == {"priv"}
PublicKeys == {"pub"}

-----------------------------------------------------------------------------
(* Values and objects *)

Num(n) == [t |-> "num", n |-> n, s |-> ""]
Str(s) == [t |-> "str", n |-> 0, s |-> s]
Undefined == [t |-> "undefined", n |-> 0, s |-> ""]

\* JavaScript truthiness: 0, "" and undefined are falsy.
Truthy(v) == \/ v.t = "num" /\ v.n # 0
             \/ v.t = "str" /\ v.s # ""

Prop(k, v) == [k |-> k, v |-> v]

Keys(obj) == [i \in 1..Len(obj) |-> obj[i].k]

HasKey(obj, k) == \E i \in 1..Len(obj) : obj[i].k = k

\* obj[k]
Get(obj, k) ==
    IF HasKey(obj, k)
    THEN obj[CHOOSE i \in 1..Len(obj) : obj[i].k = k].v
    ELSE Undefined

\* obj[k] = v: an existing key keeps its place, a new key goes last.
Set(obj, k, v) ==
    IF HasKey(obj, k)
    THEN [i \in 1..Len(obj) |-> IF obj[i].k = k THEN Prop(k, v) ELSE obj[i]]
    ELSE Append(obj, Prop(k, v))

\* Object.assign(target, source): source's own properties, in source's order.
RECURSIVE ObjectAssign(_, _)
ObjectAssign(target, source) ==
    IF source = <<>>
    THEN target
    ELSE ObjectAssign(Set(target, Head(source).k, Head(source).v), Tail(source))

\* An object literal: the properties given, those with an undefined value left out.
MkObj(props) == SelectSeq(props, LAMBDA p : p.v.t # "undefined")

-----------------------------------------------------------------------------
(* Text: UTF-8, JSON, base64 *)

\* Buffer.from(s): the bytes of the strings the model uses.
Utf8 ==
   "" :> <<>>
   @@ "action" :> <<97, 99, 116, 105, 111, 110>>
   @@ "amount" :> <<97, 109, 111, 117, 110, 116>>
   @@ "currency" :> <<99, 117, 114, 114, 101, 110, 99, 121>>
   @@ "description" :> <<100, 101, 115, 99, 114, 105, 112, 116, 105, 111, 110>>
   @@ "order_id" :> <<111, 114, 100, 101, 114, 95, 105, 100>>
   @@ "language" :> <<108, 97, 110, 103, 117, 97, 103, 101>>
   @@ "sandbox" :> <<115, 97, 110, 100, 98, 111, 120>>
   @@ "version" :> <<118, 101, 114, 115, 105, 111, 110>>
   @@ "public_key" :> <<112, 117, 98, 108, 105, 99, 95, 107, 101, 121>>
   @@ "pay" :> <<112, 97, 121>>
   @@ "hold" :> <<104, 111, 108, 100>>
   @@ "UAH" :> <<85, 65, 72>>
   @@ "USD" :> <<85, 83, 68>>
   @@ "tea" :> <<116, 101, 97>>
   @@ "milk" :> <<109, 105, 108, 107>>
   @@ "a\"b" :> <<97, 34, 98>>
   @@ "o1" :> <<111, 49>>
   @@ "o2" :> <<111, 50>>
   @@ "uk" :> <<117, 107>>
   @@ "en" :> <<101, 110>>
   @@ "0" :> <<48>>
   @@ "1" :> <<49>>
   @@ "3" :> <<51>>
   @@ "4" :> <<52>>
   @@ "9" :> <<57>>
   @@ "evil" :> <<101, 118, 105, 108>>
   @@ "priv" :> <<112, 114, 105, 118>>
   @@ "pub" :> <<112, 117, 98>>

\* The string whose bytes are b.
FromUtf8(b) == CHOOSE s \in DOMAIN Utf8 : Utf8[s] = b

\* The decimal digits of a natural number, as JSON.stringify writes it.
RECURSIVE NumberToString(_)
NumberToString(n) ==
    IF n < 10 THEN <<48 + n>> ELSE Append(NumberToString(n \div 10), 48 + (n % 10))

\* JSON string escaping: a quote (34) and a backslash (92) get a backslash.
RECURSIVE Escape(_)
Escape(b) ==
    IF b = <<>> THEN <<>>
    ELSE IF Head(b) \in {34, 92} THEN <<92, Head(b)>> \o Escape(Tail(b))
    ELSE <<Head(b)>> \o Escape(Tail(b))

Quote(b) == <<34>> \o Escape(b) \o <<34>>

StringifyValue(v) ==
    IF v.t = "num" THEN NumberToString(v.n) ELSE Quote(Utf8[v.s])

RECURSIVE StringifyMembers(_, _)
StringifyMembers(obj, i) ==
    IF i > Len(obj) THEN <<>>
    ELSE (IF i > 1 THEN <<44>> ELSE <<>>)
         \o Quote(Utf8[obj[i].k]) \o <<58>> \o StringifyValue(obj[i].v)
         \o StringifyMembers(obj, i + 1)

\* JSON.stringify(obj) of a flat object: {"k":v,...} in the object's key order.
JSONstringify(obj) == <<123>> \o StringifyMembers(obj, 1) \o <<125>>

\* The base64 alphabet: A-Z, a-z, 0-9, +, /.
Base64Alphabet ==
    [x \in 1..64 |-> IF x <= 26 THEN 64 + x
                     ELSE IF x <= 52 THEN 70 + x
                     ELSE IF x <= 62 THEN x - 5
                     ELSE IF x = 63 THEN 43 ELSE 47]

\* Buffer.toString('base64'): 3 bytes to 4 characters, padded with = (61).
\* Character j (0..3) of a group takes the low 2j bits of the group's byte j
\* and the high 6 - 2j bits of its byte j + 1; k is the index of byte j.
Base64Encode(b) ==
    LET n == Len(b)
    IN  [i \in 1..(4 * ((n + 2) \div 3)) |->
            LET j == (i - 1) % 4
                k == 3 * ((i - 1) \div 4) + j
            IN  IF k > n THEN 61
                ELSE Base64Alphabet[
                       1 + (IF j = 0 THEN 0 ELSE (b[k] % <<4, 16, 64>>[j]) * <<16, 4, 1>>[j])
                         + (IF j = 3 \/ k = n THEN 0 ELSE b[k + 1] \div <<4, 16, 64>>[j + 1])]]


\* The value of a base64 character (0 for the padding).
Base64Value(c) ==
    IF c >= 65 /\ c <= 90 THEN c - 65
    ELSE IF c >= 97 /\ c <= 122 THEN c - 71
    ELSE IF c >= 48 /\ c <= 57 THEN c + 4
    ELSE IF c = 43 THEN 62
    ELSE IF c = 47 THEN 63 ELSE 0

\* Buffer.from(t, 'base64'): what the gateway does to read the data back.
Base64Decode(t) ==
    LET n == Len(t)
        pads == Cardinality({i \in 1..n : t[i] = 61})
        Sx(g, j) == Base64Value(t[4 * g + j])
        Byte(g, j) ==
            CASE j = 0 -> Sx(g, 1) * 4 + (Sx(g, 2) \div 16)
              [] j = 1 -> (Sx(g, 2) % 16) * 16 + (Sx(g, 3) \div 4)
              [] OTHER -> (Sx(g, 3) % 4) * 64 + Sx(g, 4)
    IN  [k \in 1..(3 * (n \div 4) - pads) |-> Byte((k - 1) \div 3, (k - 1) % 3)]

\* The index of the quote that closes a JSON string whose text starts at i.
RECURSIVE StringEnd(_, _)
StringEnd(t, i) ==
    IF t[i] = 92 THEN StringEnd(t, i + 2)
    ELSE IF t[i] = 34 THEN i
    ELSE StringEnd(t, i + 1)

RECURSIVE Unescape(_)
Unescape(b) ==
    IF b = <<>> THEN <<>>
    ELSE IF Head(b) = 92 THEN <<b[2]>> \o Unescape(SubSeq(b, 3, Len(b)))
    ELSE <<Head(b)>> \o Unescape(Tail(b))

IsDigit(c) == c >= 48 /\ c <= 57

\* The first index from i on that holds no digit.
RECURSIVE NumberEnd(_, _)
NumberEnd(t, i) == IF i <= Len(t) /\ IsDigit(t[i]) THEN NumberEnd(t, i + 1) ELSE i

RECURSIVE ParseNumber(_)
ParseNumber(b) ==
    IF b = <<>> THEN 0
    ELSE 10 * ParseNumber(SubSeq(b, 1, Len(b) - 1)) + (b[Len(b)] - 48)

RECURSIVE ParseMembers(_, _)
ParseMembers(t, i) ==
    IF i > Len(t) \/ t[i] = 125 THEN <<>>
    ELSE IF t[i] = 44 THEN ParseMembers(t, i + 1)
    ELSE LET ke == StringEnd(t, i + 1)
             key == FromUtf8(Unescape(SubSeq(t, i + 1, ke - 1)))
             vs == ke + 2
         IN  IF t[vs] = 34
             THEN LET ve == StringEnd(t, vs + 1)
                      val == Str(FromUtf8(Unescape(SubSeq(t, vs + 1, ve - 1))))
                  IN  <<Prop(key, val)>> \o ParseMembers(t, ve + 1)
             ELSE LET ne == NumberEnd(t, vs)
                      val == Num(ParseNumber(SubSeq(t, vs, ne - 1)))
                  IN  <<Prop(key, val)>> \o ParseMembers(t, ne)

\* JSON.parse(t) of a flat object, its keys in the order of the text.
JSONparse(t) == ParseMembers(t, 2)

\* The payment the gateway reads out of a request's data.
Decoded(data) == JSONparse(Base64Decode(data))

\* createHash('sha1') ... digest('base64').  SHA-1 is not computed: the digest
\* is taken as collision-free, and modelled by an injective map of the
\* message to text (a # and the message).
Sha1Base64(message) == <<35>> \o message

-----------------------------------------------------------------------------
(* The class LiqPay *)

baseUrl == <<104, 116, 116, 112, 115, 58, 47, 47, 119, 119, 119, 46, 108, 105, 113, 112, 97, 121, 46, 117, 97, 47, 97, 112, 105>>

imageSrc == <<47, 47, 115, 116, 97, 116, 105, 99, 46, 108, 105, 113, 112, 97, 121, 46, 117, 97, 47, 98, 117, 116, 116, 111, 110, 115, 47, 112, 49, 114, 117, 46, 114, 97, 100, 105, 117, 115, 46, 112, 110, 103>>

DefaultApiVersion == "3"

\* Language.UA, the enum member preparePayment defaults the language to.
LanguageUA == "uk"

NoError == ""

\* setApiVersion with the assignment lost: it checks its argument and keeps
\* the version it had.
setApiVersionNotStored(v) ==
    IF v = ""
    THEN [error |-> "API version not specified!", apiVersion |-> apiVersion]
    ELSE [error |-> NoError, apiVersion |-> apiVersion]

\* setApiVersion with the check of its argument lost.
setApiVersionUnchecked(v) == [error |-> NoError, apiVersion |-> v]

\* setApiVersion(apiVersion): the error it throws and the version it leaves.
setApiVersion(v) ==
    IF v = ""
    THEN [error |-> "API version not specified!", apiVersion |-> apiVersion]
    ELSE [error |-> NoError, apiVersion |-> v]

\* preparePayment with the merge turned round, Object.assign(defaults,
\* payload): the caller's version and public_key win over the builder's.
preparePaymentCallerWins(payload) ==
    LET p0 == ObjectAssign(<<>>, payload)
        p1 == IF ~Truthy(Get(p0, "language"))
              THEN Set(p0, "language", Str(LanguageUA)) ELSE p0
        p2 == IF enableSandbox THEN Set(p1, "sandbox", Str("1")) ELSE p1
        p3 == IF HasKey(p2, "version") THEN p2
              ELSE Set(p2, "version", Str(apiVersion))
    IN  IF HasKey(p3, "public_key") THEN p3
        ELSE Set(p3, "public_key", Str(publicKey))

\* preparePayment with the test of the caller's language lost: the language
\* is always the default.
preparePaymentAlwaysDefaultLanguage(payload) ==
    LET p0 == ObjectAssign(<<>>, payload)
        p1 == Set(p0, "language", Str(LanguageUA))
        p2 == IF enableSandbox THEN Set(p1, "sandbox", Str("1")) ELSE p1
        p3 == Set(p2, "version", Str(apiVersion))
    IN  Set(p3, "public_key", Str(publicKey))

preparePayment(payload) ==
    LET p0 == ObjectAssign(<<>>, payload)
        p1 == IF ~Truthy(Get(p0, "language"))
              THEN Set(p0, "language", Str(LanguageUA)) ELSE p0
        p2 == IF enableSandbox THEN Set(p1, "sandbox", Str("1")) ELSE p1
        p3 == Set(p2, "version", Str(apiVersion))
    IN  Set(p3, "public_key", Str(publicKey))

\* verifyPaymentData with the currency check moved before the amount check.
verifyPaymentDataCurrencyFirst(payment) ==
    IF ~Truthy(Get(payment, "version")) THEN "Version must be specified!"
    ELSE IF ~Truthy(Get(payment, "currency")) THEN "Currency must be specified!"
    ELSE IF ~Truthy(Get(payment, "amount")) THEN "Amount must be specified!"
    ELSE IF ~Truthy(Get(payment, "description")) THEN "Description must be specified!"
    ELSE NoError

\* verifyPaymentData with one more check, of order_id.
verifyPaymentDataOrderIdToo(payment) ==
    IF ~Truthy(Get(payment, "version")) THEN "Version must be specified!"
    ELSE IF ~Truthy(Get(payment, "amount")) THEN "Amount must be specified!"
    ELSE IF ~Truthy(Get(payment, "currency")) THEN "Currency must be specified!"
    ELSE IF ~Truthy(Get(payment, "description")) THEN "Description must be specified!"
    ELSE IF ~Truthy(Get(payment, "order_id")) THEN "Order id must be specified!"
    ELSE NoError

\* The message of the TypeError verifyPaymentData throws, NoError if none.
verifyPaymentData(payment) ==
    IF ~Truthy(Get(payment, "version")) THEN "Version must be specified!"
    ELSE IF ~Truthy(Get(payment, "amount")) THEN "Amount must be specified!"
    ELSE IF ~Truthy(Get(payment, "currency")) THEN "Currency must be specified!"
    ELSE IF ~Truthy(Get(payment, "description")) THEN "Description must be specified!"
    ELSE NoError

generateData(paymentData) == Base64Encode(JSONstringify(paymentData))

\* generateSignature with the hash object kept in a field and updated by every
\* call: the message of the call before (the latest signature without its #)
\* is hashed again with this call's.
generateSignatureSharedHash(data) ==
    Sha1Base64((IF out.signature = <<>> THEN <<>> ELSE Tail(out.signature))
               \o Utf8[privateKey] \o data \o Utf8[privateKey])

generateSignature(data) ==
    Sha1Base64(Utf8[privateKey] \o data \o Utf8[privateKey])

\* getObjData(payload): the error thrown, or the { data, signature } returned.
getObjData(payload) ==
    LET payment == preparePayment(payload)
        error == verifyPaymentData(payment)
    IN  IF error # NoError
        THEN [error |-> error, data |-> <<>>, signature |-> <<>>]
        ELSE LET data == generateData(payment)
             IN  [error |-> NoError, data |-> data,
                  signature |-> generateSignature(data)]

\* The literal parts of getHtmlForm's template, between its ${...} places.
HtmlFormOpen == <<10, 32, 32, 32, 32, 32, 32, 32, 32, 32, 32, 32, 32, 60, 102, 111, 114, 109, 32, 109, 101, 116, 104, 111, 100, 61, 34, 80, 79, 83, 84, 34, 32, 97, 99, 116, 105, 111, 110, 61, 34>>

HtmlDataInput == <<47, 99, 104, 101, 99, 107, 111, 117, 116, 34, 32, 97, 99, 99, 101, 112, 116, 45, 99, 104, 97, 114, 115, 101, 116, 61, 34, 117, 116, 102, 45, 56, 34, 62, 10, 32, 32, 32, 32, 32, 32, 32, 32, 32, 32, 32, 32, 32, 32, 32, 32, 60, 105, 110, 112, 117, 116, 32, 116, 121, 112, 101, 61, 34, 104, 105, 100, 100, 101, 110, 34, 32, 110, 97, 109, 101, 61, 34, 100, 97, 116, 97, 34, 32, 118, 97, 108, 117, 101, 61, 34>>

HtmlSignatureInput == <<34, 32, 47, 62, 10, 32, 32, 32, 32, 32, 32, 32, 32, 32, 32, 32, 32, 32, 32, 32, 32, 60, 105, 110, 112, 117, 116, 32, 116, 121, 112, 101, 61, 34, 104, 105, 100, 100, 101, 110, 34, 32, 110, 97, 109, 101, 61, 34, 115, 105, 103, 110, 97, 116, 117, 114, 101, 34, 32, 118, 97, 108, 117, 101, 61, 34>>

HtmlImageInput == <<34, 32, 47, 62, 10, 32, 32, 32, 32, 32, 32, 32, 32, 32, 32, 32, 32, 32, 32, 32, 32, 60, 105, 110, 112, 117, 116, 32, 116, 121, 112, 101, 61, 34, 105, 109, 97, 103, 101, 34, 32, 115, 114, 99, 61, 34>>

HtmlFormClose == <<34, 32, 47, 62, 10, 32, 32, 32, 32, 32, 32, 32, 32, 32, 32, 32, 32, 60, 47, 102, 111, 114, 109, 62, 10, 32, 32, 32, 32, 32, 32, 32, 32>>

\* getHtmlForm with the default version written into the action URL.
getHtmlFormDefaultVersion(payload) ==
    LET r == getObjData(payload)
    IN  IF r.error # NoError
        THEN [error |-> r.error, html |-> <<>>]
        ELSE [error |-> NoError,
              html |-> HtmlFormOpen \o baseUrl \o <<47>> \o Utf8[DefaultApiVersion]
                       \o HtmlDataInput \o r.data
                       \o HtmlSignatureInput \o r.signature
                       \o HtmlImageInput \o imageSrc \o HtmlFormClose]

\* getHtmlForm(payload): the error thrown, or the form's text.
getHtmlForm(payload) ==
    LET r == getObjData(payload)
    IN  IF r.error # NoError
        THEN [error |-> r.error, html |-> <<>>]
        ELSE [error |-> NoError,
              html |-> HtmlFormOpen \o baseUrl \o <<47>> \o Utf8[apiVersion]
                       \o HtmlDataInput \o r.data
                       \o HtmlSignatureInput \o r.signature
                       \o HtmlImageInput \o imageSrc \o HtmlFormClose]

-----------------------------------------------------------------------------
(* The payloads the operations are called with *)

\* A payload whose keys are in the order IPayload declares them; a field given
\* as Undefined is left out.
Canonical(action, amount, currency, description, orderId, language) ==
    MkObj(<<Prop("action", action), Prop("amount", amount),
            Prop("currency", currency), Prop("description", description),
            Prop("order_id", orderId), Prop("language", language)>>)

BasePayload ==
    Canonical(Str("pay"), Num(1), Str("UAH"), Str("tea"), Str("o1"), Undefined)

Reverse(obj) == [i \in 1..Len(obj) |-> obj[Len(obj) + 1 - i]]

\* The required fields present or left out, in every combination, and every
\* amount.
RequiredFieldPayloads ==
    { Canonical(Str("pay"), am, cu, de, Str("o1"), Undefined) :
        am \in {Undefined} \cup {Num(n) : n \in 0..MaxAmount},
        cu \in {Undefined, Str("UAH")},
        de \in {Undefined, Str("tea")} }

\* The base payload with one field changed.
OneFieldPayloads ==
    { Canonical(Str("hold"), Num(1), Str("UAH"), Str("tea"), Str("o1"), Undefined),
      Canonical(Str("pay"), Num(1), Str("USD"), Str("tea"), Str("o1"), Undefined),
      Canonical(Str("pay"), Num(1), Str(""), Str("tea"), Str("o1"), Undefined),
      Canonical(Str("pay"), Num(1), Str("UAH"), Str(""), Str("o1"), Undefined),
      Canonical(Str("pay"), Num(1), Str("UAH"), Str("milk"), Str("o1"), Undefined),
      Canonical(Str("pay"), Num(1), Str("UAH"), Str("a\"b"), Str("o1"), Undefined),
      Canonical(Str("pay"), Num(1), Str("UAH"), Str("tea"), Str("o2"), Undefined),
      Canonical(Str("pay"), Num(1), Str("UAH"), Str("tea"), Undefined, Undefined),
      Canonical(Str("pay"), Num(1), Str("UAH"), Str("tea"), Str("o1"), Str("")),
      Canonical(Str("pay"), Num(1), Str("UAH"), Str("tea"), Str("o1"), Str("uk")),
      Canonical(Str("pay"), Num(1), Str("UAH"), Str("tea"), Str("o1"), Str("en")) }

\* Properties of IPaymentInfo a caller's object may carry beside IPayload's.
ExtraProps ==
    { Prop("sandbox", Str("1")), Prop("sandbox", Str("0")),
      Prop("version", Str("")), Prop("version", Str("9")),
      Prop("public_key", Str("evil")) }

ExtraKeyPayloads ==
    { <<e>> \o BasePayload : e \in ExtraProps }
    \cup { BasePayload \o <<e>> : e \in ExtraProps }
    \cup { <<Prop("version", Str("9")), Prop("public_key", Str("evil")),
             Prop("sandbox", Str("0"))>> \o BasePayload,
           <<Prop("version", Str(""))>>
           \o Canonical(Str("pay"), Undefined, Str("UAH"), Str("tea"), Str("o1"), Undefined) }

\* The same fields in another key order.
ReorderedPayloads ==
    { Reverse(BasePayload),
      Reverse(Canonical(Str("pay"), Num(1), Str("UAH"), Str("tea"), Str("o1"), Str("en"))),
      <<Prop("language", Str("en"))>> \o BasePayload }

Payloads ==
    RequiredFieldPayloads \cup OneFieldPayloads \cup ExtraKeyPayloads
        \cup ReorderedPayloads

-----------------------------------------------------------------------------
(* The state machine: a builder and the calls made on it *)

\* The fields of IPayload.
PayloadFields ==
    {"action", "amount", "currency", "description", "order_id", "language"}

Without(obj, k) == SelectSeq(obj, LAMBDA p : p.k # k)

\* Two payloads that differ in exactly one field of IPayload, which one of
\* them may lack, and in nothing else.
DifferInOneField(p, q) ==
    \E k \in PayloadFields :
        /\ Get(p, k) # Get(q, k)
        /\ Without(p, k) = Without(q, k)

\* History: whether the call before a getObjData call that returns was a
\* getObjData call that returned, made under the same API version, with the
\* same payload or with one that differs from it in one field.
Relation(payload) ==
    IF out.op = "getObjData" /\ out.error = NoError /\ out.ver = apiVersion
    THEN IF payload = out.payload THEN "same"
         ELSE IF DifferInOneField(out.payload, payload) THEN "oneField"
         ELSE "none"
    ELSE "none"

NoCall ==
    [op |-> "none", payload |-> <<>>, error |-> NoError, data |-> <<>>,
     signature |-> <<>>, html |-> <<>>, ver |-> "", req |-> "", rel |-> "none"]

\* new LiqPay(privateKey, publicKey, enableSandbox)
Init ==
    /\ privateKey \in PrivateKeys
    /\ publicKey \in PublicKeys
    /\ enableSandbox \in BOOLEAN
    /\ apiVersion = DefaultApiVersion
    /\ out = NoCall
    /\ setOut = [called |-> FALSE, arg |-> "", error |-> NoError]
    /\ requested = DefaultApiVersion

SetApiVersion(v) ==
    \E r \in {setApiVersion(v)} :
        /\ apiVersion' = r.apiVersion
        /\ setOut' = [called |-> TRUE, arg |-> v, error |-> r.error]
        /\ requested' = IF v # "" THEN v ELSE requested
        /\ UNCHANGED <<privateKey, publicKey, enableSandbox, out>>

\* out.ver and out.req record the builder's version, and the version last
\* asked for, when the call was made; out.rel, the call's relation to the one
\* before it.
GetObjData(payload) ==
    \E r \in {getObjData(payload)} :
        /\ out' = [op |-> "getObjData", payload |-> payload, error |-> r.error,
                   data |-> r.data, signature |-> r.signature, html |-> <<>>,
                   ver |-> apiVersion, req |-> requested,
                   rel |-> IF r.error = NoError THEN Relation(payload) ELSE "none"]
        /\ UNCHANGED <<privateKey, publicKey, enableSandbox, apiVersion, setOut, requested>>

GetHtmlForm(payload) ==
    \E r \in {getHtmlForm(payload)} :
        /\ out' = [op |-> "getHtmlForm", payload |-> payload, error |-> r.error,
                   data |-> <<>>, signature |-> <<>>, html |-> r.html,
                   ver |-> apiVersion, req |-> requested, rel |-> "none"]
        /\ UNCHANGED <<privateKey, publicKey, enableSandbox, apiVersion, setOut, requested>>

Next ==
    \/ \E v \in VersionArgs : SetApiVersion(v)
    \/ \E payload \in Payloads : GetObjData(payload)
    \/ \E payload \in Payloads : GetHtmlForm(payload)

Spec == Init /\ [][Next]_vars

-----------------------------------------------------------------------------
(* What the claims speak of *)

\* The latest call was a getObjData call that returned / that threw.
Accepted == out.op = "getObjData" /\ out.error = NoError
Rejected == out.op = "getObjData" /\ out.error # NoError

\* The payment read back from the data the latest call returned.
Payment == Decoded(out.data)

FixedKeyOrder ==
    <<"action", "amount", "currency", "description", "order_id", "language",
      "sandbox", "version", "public_key">>

\* A field counts as missing when it is absent, empty or zero: what the
\* checks of verifyPaymentData reject.
Missing(payload, k) == ~Truthy(Get(payload, k))

\* The error of the first missing field, in the order version, amount,
\* currency, description, read off the caller's payload and the version the
\* builder had when the call was made.
FirstMissing(payload, version) ==
    IF version = "" THEN "Version must be specified!"
    ELSE IF Missing(payload, "amount") THEN "Amount must be specified!"
    ELSE IF Missing(payload, "currency") THEN "Currency must be specified!"
    ELSE IF Missing(payload, "description") THEN "Description must be specified!"
    ELSE NoError

ValidationErrors ==
    { "Version must be specified!", "Amount must be specified!",
      "Currency must be specified!", "Description must be specified!" }

-----------------------------------------------------------------------------
(* C1 *)

\* The caller's object is an IPayload: it has the five required keys, maybe
\* language, and no other key.
IsIPayload(payload) ==
    /\ \A k \in PayloadFields \ {"language"} : HasKey(payload, k)
    /\ \A i \in 1..Len(payload) : payload[i].k \in PayloadFields

\* C1: for every payload getObjData accepts, the keys of the JSON object in
\* the returned data are, in this order, action, amount, currency,
\* description, order_id, language, sandbox (only when present), version,
\* public_key, whatever the key order of the caller's object.  Stated here for
\* the caller objects that are IPayload values, the least the claim covers.
C1_FixedKeyOrder ==
    (Accepted /\ IsIPayload(out.payload)) =>
        Keys(Payment) =
            SelectSeq(FixedKeyOrder,
                      LAMBDA k : k # "sandbox" \/ HasKey(Payment, "sandbox"))

-----------------------------------------------------------------------------
(* C2 *)

\* C2: for every payload getObjData accepts, the version and public_key of
\* the decoded data are the builder's API version at the call and the public
\* key given at construction, never the caller's version or public_key keys.
C2_VersionAndKeyFromBuilder ==
    Accepted =>
        /\ Get(Payment, "version") = Str(out.ver)
        /\ Get(Payment, "public_key") = Str(publicKey)

\* An accepted payload that carries conflicting version and public_key keys.
C2_Witness ==
    /\ Accepted
    /\ HasKey(out.payload, "version")
    /\ Get(out.payload, "version") # Str(out.ver)
    /\ HasKey(out.payload, "public_key")
    /\ Get(out.payload, "public_key") # Str(publicKey)

-----------------------------------------------------------------------------
(* C3 *)

\* C3: for every payload getObjData accepts, the decoded data holds sandbox
\* "1" when the builder was constructed with sandbox enabled and no sandbox
\* key at all when it was not, whatever the caller's payload carries.
C3_SandboxFromBuilder ==
    Accepted =>
        IF enableSandbox
        THEN Get(Payment, "sandbox") = Str("1")
        ELSE ~HasKey(Payment, "sandbox")

-----------------------------------------------------------------------------
(* C4 *)

\* C4: when getObjData rejects a payload, the error names the first missing
\* field in the order version, amount, currency, description, and only that
\* one field.
C4_FirstMissingFieldNamed ==
    Rejected =>
        /\ out.error \in ValidationErrors
        /\ out.error = FirstMissing(out.payload, out.ver)

\* A rejected payload that lacks amount, currency and description at once,
\* or amount and one of the two.
C4_Witness ==
    /\ Rejected
    /\ Missing(out.payload, "amount")
    /\ Missing(out.payload, "currency")
    /\ out.error = "Amount must be specified!"

\* A payload rejected for its currency though its description is missing too.
C4_WitnessCurrency ==
    /\ Rejected
    /\ ~Missing(out.payload, "amount")
    /\ Missing(out.payload, "currency")
    /\ Missing(out.payload, "description")
    /\ out.error = "Currency must be specified!"

-----------------------------------------------------------------------------
(* C5 *)

\* C5: the version in the decoded data of an accepted getObjData call is the
\* argument of the latest setApiVersion call with a non-empty argument, "3" if
\* there was none; a setApiVersion call with an empty argument throws and
\* leaves the builder's version as it was.
C5_VersionIsLatestRequested ==
    /\ Accepted => Get(Payment, "version") = Str(out.req)
    /\ (setOut.called /\ setOut.arg = "") =>
           setOut.error = "API version not specified!"
    /\ apiVersion = requested

\* getObjData accepts a payload after setApiVersion("4") and then a failed
\* setApiVersion("").
C5_Witness ==
    /\ Accepted
    /\ out.req = "4"
    /\ setOut.called
    /\ setOut.arg = ""
    /\ apiVersion = "4"

-----------------------------------------------------------------------------
(* C6 *)

\* The places in text where pat starts.
Occurrences(text, pat) ==
    { i \in 1..(Len(text) - Len(pat) + 1) : SubSeq(text, i, i + Len(pat) - 1) = pat }

\* The text between the first pat, which ends with an opening quote, and the
\* quote (34) that closes it.
AttrValue(text, pat) ==
    LET first == CHOOSE i \in Occurrences(text, pat) :
                     \A j \in Occurrences(text, pat) : i <= j
        start == first + Len(pat)
        close == CHOOSE e \in start..Len(text) :
                     /\ text[e] = 34
                     /\ \A j \in start..(e - 1) : text[j] # 34
    IN  SubSeq(text, start, close - 1)

\* ' action="', 'name="data" value="', 'name="signature" value="', '/checkout'
ActionAttr == <<32, 97, 99, 116, 105, 111, 110, 61, 34>>
DataField == <<110, 97, 109, 101, 61, 34, 100, 97, 116, 97, 34, 32, 118, 97, 108, 117, 101, 61, 34>>
SignatureField == <<110, 97, 109, 101, 61, 34, 115, 105, 103, 110, 97, 116, 117, 114, 101, 34, 32, 118, 97, 108, 117, 101, 61, 34>>
CheckoutPath == <<47, 99, 104, 101, 99, 107, 111, 117, 116>>

C6_WitnessRejected ==
    /\ out.op = "getHtmlForm"
    /\ out.error = "Amount must be specified!"
    /\ out.ver = apiVersion

-----------------------------------------------------------------------------
(* C7 *)

\* The calls are compared in pairs, a getObjData call that returns with the
\* latest one before it: no operation reads what an earlier call returned, so
\* calls made in between change nothing but the builder's version.

\* C7 as claimed: two getObjData calls with an identical payload, made with
\* the same private key, return the same signature.
C7_SamePayloadSameSignature ==
    [][ ( /\ Accepted
          /\ out'.op = "getObjData" /\ out'.error = NoError
          /\ out'.payload = out.payload )
        => out'.signature = out.signature ]_vars

\* C7 as amended: two getObjData calls with an identical payload, made on one
\* builder (one private key, public key and sandbox flag) under the same API
\* version, return the same signature.
C7_SamePayloadAndVersionSameSignature ==
    [][ ( /\ Accepted
          /\ out'.op = "getObjData" /\ out'.error = NoError
          /\ out'.payload = out.payload
          /\ out'.ver = out.ver )
        => out'.signature = out.signature ]_vars

\* A second accepted call with the payload and the version of the first.
C7_Witness == Accepted /\ out.rel = "same"

-----------------------------------------------------------------------------
(* C8 *)

\* The language preparePayment gives a payload.
LanguageOf(payload) ==
    IF Truthy(Get(payload, "language")) THEN Get(payload, "language")
    ELSE Str(LanguageUA)

\* A payload's language is unset or a language: not the empty string.
LanguageValid(payload) ==
    HasKey(payload, "language") => Truthy(Get(payload, "language"))

\* C8 as claimed: on one builder, two valid payloads that differ in exactly
\* one field (language unset against set included) get different signatures.
C8_OneFieldChangesSignature ==
    [][ ( /\ Accepted
          /\ out'.op = "getObjData" /\ out'.error = NoError
          /\ out'.ver = out.ver
          /\ LanguageValid(out.payload) /\ LanguageValid(out'.payload)
          /\ DifferInOneField(out.payload, out'.payload) )
        => out'.signature # out.signature ]_vars

\* C8 as amended: they get different signatures unless the field is language
\* and both payloads come out with the same language: one leaves it unset
\* and the other sets the default, Language.UA.
C8_OneFieldChangesSignatureButDefault ==
    [][ ( /\ Accepted
          /\ out'.op = "getObjData" /\ out'.error = NoError
          /\ out'.ver = out.ver
          /\ LanguageValid(out.payload) /\ LanguageValid(out'.payload)
          /\ DifferInOneField(out.payload, out'.payload)
          /\ ~ ( /\ Without(out.payload, "language") = Without(out'.payload, "language")
                 /\ LanguageOf(out.payload) = LanguageOf(out'.payload) ) )
        => out'.signature # out.signature ]_vars

\* An accepted call whose payload sets another language than the payload of
\* the call before, and is the same otherwise.
C8_Witness ==
    /\ Accepted
    /\ out.rel = "oneField"
    /\ IsIPayload(out.payload)
    /\ Get(out.payload, "language") = Str("en")

-----------------------------------------------------------------------------
(* C9 *)

\* C9: getObjData throws a validation error exactly when version, amount,
\* currency or description is missing; a call that throws returns nothing
\* and a call that returns holds both data and signature.
C9_RejectsOnlyMissingRequired ==
    out.op = "getObjData" =>
        /\ (out.error # NoError) <=> (FirstMissing(out.payload, out.ver) # NoError)
        /\ out.error # NoError =>
               /\ out.error \in ValidationErrors
               /\ out.data = <<>> /\ out.signature = <<>>
        /\ out.error = NoError => (out.data # <<>> /\ out.signature # <<>>)

\* A payload with amount, currency and description and no order_id is signed.
C9_Witness ==
    /\ Accepted
    /\ ~HasKey(out.payload, "order_id")
    /\ ~Missing(out.payload, "amount")
    /\ ~Missing(out.payload, "currency")
    /\ ~Missing(out.payload, "description")

-----------------------------------------------------------------------------
(* C10 *)

\* C10: in every reachable state the builder's API version is non-empty, and
\* no call has thrown "Version must be specified!", whatever the payload.
C10_VersionNeverEmpty ==
    /\ apiVersion # ""
    /\ out.error # "Version must be specified!"

\* A call on a payload with an empty version key of its own, after a
\* setApiVersion("") that threw.
C10_Witness ==
    /\ out.op # "none"
    /\ HasKey(out.payload, "version")
    /\ Get(out.payload, "version") = Str("")
    /\ setOut.called
    /\ setOut.arg = ""
    /\ setOut.error # NoError

=============================================================================
